---- MODULE Spec2Model ----
(***************************************************************************)
(* arpwatch exporter: the refresh loop (readArpwatchData / updateMetrics), *)
(* the four Prometheus instruments it writes, the mux, the Basic-Auth gate *)
(* in front of the metrics and home handlers, and the scrape that reads    *)
(* the instruments one after another while the loop goes on writing them.  *)
(*                                                                         *)
(* Text is modelled as a sequence of one-character strings, so that        *)
(* strings.Fields, strings.HasPrefix, strconv.ParseInt and the cut at the  *)
(* first ":" of the Basic credentials are computed, not assumed.  A        *)
(* character a TLA+ string cannot spell is a named token.                  *)
(***************************************************************************)
EXTENDS Integers, Sequences, FiniteSets, TLC

VARIABLES
    lastSeenTimestamp,  \* GaugeVec: (mac, ip, hostname) -> value
    fileReadErrors,     \* Counter
    lastFileReadTime,   \* Gauge
    devicesTracked,     \* Gauge
    authUsername,       \* flag auth.username
    authPassword,       \* flag auth.password
    pc,                 \* position of the updateMetrics goroutine
    file,               \* lines of the file the current cycle opened
    scanned,            \* lines scanner.Text() has returned in this cycle
    deviceCount,        \* local deviceCount of readArpwatchData
    scanErr,            \* the scanner holds a read error
    pending,            \* the series WithLabelValues returned, not yet Set
    now,                \* time.Now().Unix(), in sleep intervals
    pre,                \* instruments as they were when the cycle began
    lastGood,           \* series left by the last fully successful cycle
    outcome,            \* how the call that has just returned ended
    response            \* the request being served and its answer so far

vars == <<lastSeenTimestamp, fileReadErrors, lastFileReadTime, devicesTracked,
          authUsername, authPassword, pc, file, scanned, deviceCount, scanErr,
          pending, now, pre, lastGood, outcome, response>>

registry == <<lastSeenTimestamp, fileReadErrors, lastFileReadTime, devicesTracked>>
flags    == <<authUsername, authPassword>>
loop     == <<pc, file, scanned, deviceCount, scanErr, pending, now, pre, lastGood,
              outcome>>

----------------------------------------------------------------------------
(* Bounds *)

\* lines per file
MaxLines == 3
\* refresh cycles per run
MaxCycles == 2

----------------------------------------------------------------------------
(* Text helpers *)

Digits == <<"0", "1", "2", "3", "4", "5", "6", "7", "8", "9">>

IsDigit(c) == \E i \in 1..10 : Digits[i] = c

DigitVal(c) == (CHOOSE i \in 1..10 : Digits[i] = c) - 1

\* the vertical tab, U+000B
VT == "<VT>"

\* a byte that is no UTF-8 encoding of anything, such as 0xFF
BadByte == "<FF>"

\* the white space beyond ASCII: U+0085, U+00A0 and the space separators
UnicodeSpaces ==
    {"<U+0085>", "<U+00A0>", "<U+1680>", "<U+2000>", "<U+2001>", "<U+2002>",
     "<U+2003>", "<U+2004>", "<U+2005>", "<U+2006>", "<U+2007>", "<U+2008>",
     "<U+2009>", "<U+200A>", "<U+2028>", "<U+2029>", "<U+202F>", "<U+205F>",
     "<U+3000>"}

\* unicode.IsSpace, as strings.Fields uses it: '\t', '\n', '\v', '\f', '\r',
\* ' ' in ASCII (the table asciiSpace) and the Unicode white space
IsSpace(c) == c \in {" ", "\t", "\n", VT, "\f", "\r"} \cup UnicodeSpaces

\* utf8.ValidString(s)
ValidUTF8(s) == \A i \in 1..Len(s) : s[i] # BadByte

\* strings.HasPrefix(s, p)
HasPrefix(s, p) == Len(s) >= Len(p) /\ SubSeq(s, 1, Len(p)) = p

\* bufio.ScanLines drops one trailing carriage return from each token
dropCR(data) ==
    IF Len(data) > 0 /\ data[Len(data)] = "\r"
    THEN SubSeq(data, 1, Len(data) - 1)
    ELSE data

\* strings.Fields: the maximal runs of non-space characters, in order
RECURSIVE FieldsFrom(_, _, _, _)
FieldsFrom(s, i, cur, acc) ==
    IF i > Len(s)
    THEN IF cur = <<>> THEN acc ELSE Append(acc, cur)
    ELSE IF IsSpace(s[i])
         THEN FieldsFrom(s, i + 1, <<>>, IF cur = <<>> THEN acc ELSE Append(acc, cur))
         ELSE FieldsFrom(s, i + 1, Append(cur, s[i]), acc)

Fields(s) == FieldsFrom(s, 1, <<>>, <<>>)

UpperCase == <<"A", "B", "C", "D", "E", "F", "G", "H", "I", "J", "K", "L", "M",
               "N", "O", "P", "Q", "R", "S", "T", "U", "V", "W", "X", "Y", "Z">>
LowerCase == <<"a", "b", "c", "d", "e", "f", "g", "h", "i", "j", "k", "l", "m",
               "n", "o", "p", "q", "r", "s", "t", "u", "v", "w", "x", "y", "z">>

\* the lower-case form of an ASCII letter; any other character is itself
lower(c) ==
    IF \E i \in 1..26 : UpperCase[i] = c
    THEN LowerCase[CHOOSE i \in 1..26 : UpperCase[i] = c]
    ELSE c

\* ascii.EqualFold(s, t): equal but for the case of ASCII letters
EqualFold(s, t) ==
    /\ Len(s) = Len(t)
    /\ \A i \in 1..Len(s) : lower(s[i]) = lower(t[i])

\* the decimal value of a sequence of digits
RECURSIVE DecimalValue(_)
DecimalValue(ds) ==
    IF ds = <<>> THEN 0
    ELSE 10 * DecimalValue(SubSeq(ds, 1, Len(ds) - 1)) + DigitVal(ds[Len(ds)])

\* digits of 2^63 - 1 and of 2^63, the int64 limits of ParseInt(s, 10, 64)
MaxInt64Digits == <<"9","2","2","3","3","7","2","0","3","6","8","5","4","7","7","5","8","0","7">>
MinInt64Digits == <<"9","2","2","3","3","7","2","0","3","6","8","5","4","7","7","5","8","0","8">>

RECURSIVE StripZeros(_)
StripZeros(ds) ==
    IF Len(ds) > 1 /\ ds[1] = "0" THEN StripZeros(Tail(ds)) ELSE ds

\* a <= b for two digit sequences without leading zeros
RECURSIVE DigitsLeq(_, _)
DigitsLeq(a, b) ==
    IF Len(a) # Len(b) THEN Len(a) < Len(b)
    ELSE IF a = <<>> THEN TRUE
    ELSE IF a[1] # b[1] THEN DigitVal(a[1]) < DigitVal(b[1])
    ELSE DigitsLeq(Tail(a), Tail(b))

\* strconv.ParseInt(s, 10, 64): an optional sign, then one or more decimal
\* digits, within the int64 range
ParseInt(s) ==
    LET neg  == Len(s) > 0 /\ s[1] = "-"
        sign == Len(s) > 0 /\ s[1] \in {"+", "-"}
        ds   == IF sign THEN Tail(s) ELSE s
        ok   == /\ ds # <<>>
                /\ \A i \in 1..Len(ds) : IsDigit(ds[i])
                /\ DigitsLeq(StripZeros(ds), IF neg THEN MinInt64Digits ELSE MaxInt64Digits)
    IN  IF ~ok THEN [ok |-> FALSE, val |-> 0]
        ELSE [ok |-> TRUE, val |-> IF neg THEN 0 - DecimalValue(ds) ELSE DecimalValue(ds)]


----------------------------------------------------------------------------
(* The inputs: lines of the arpwatch file *)

LineHost    == <<"a", " ", "x", " ", "1", " ", "h">>
LineHostDup == <<"a", " ", "x", " ", "2", " ", "h">>
LineNoHost  == <<"b", " ", VT, "x", "\t", "-", "3", "\r">>
LineShort   == <<"a", " ", "x">>
LineBadTs   == <<"b", " ", "x", " ", "1", "z", " ", "h">>
LineComment == <<"#", "a", " ", "x", " ", "1">>
LineEmpty   == <<>>
LineBadUTF8 == <<BadByte, " ", "x", " ", "1">>

SampleLines ==
    {LineHost, LineHostDup, LineNoHost, LineShort, LineBadTs, LineComment, LineEmpty,
     LineBadUTF8}

\* the contents a file can have: up to MaxLines lines
FilesOf(lines) == UNION {[1..n -> lines] : n \in 0..MaxLines}

Files == FilesOf(SampleLines)

\* the lines of the files that change from one cycle to the next
RefreshLines == {LineHost, LineNoHost, LineShort}

RefreshFiles == FilesOf(RefreshLines)

\* the files read while requests are served: one with two devices, the
\* first of them listed twice, and one without a line
ServedFiles == {<<LineHostDup, LineHost, LineNoHost>>, <<>>}

\* how many bytes of a line a failing read can have delivered
CutOffsets == {0, 5}

----------------------------------------------------------------------------
(* The per-device gauge vector *)

\* a GaugeVec without series
NoSeries == [k \in {} |-> 0]

\* lastSeenTimestamp.WithLabelValues(mac, ip, hostname): the series of these
\* label values, created with the value 0 when there is none
WithLabelValues(series, key) ==
    [k \in (DOMAIN series) \cup {key} |-> IF k \in DOMAIN series THEN series[k] ELSE 0]

\* a variant of Set that leaves a series alone once it has a value
SetSeriesKeepsFirst(series, key, v) ==
    [k \in DOMAIN series |-> IF k = key /\ series[k] = 0 THEN v ELSE series[k]]

\* Gauge.Set(float64(timestamp)) on the series WithLabelValues returned.
\* float64(timestamp) is exact for |timestamp| <= 2^53, which covers every
\* value TLC can hold.
SetSeries(series, key, v) ==
    [k \in DOMAIN series |-> IF k = key THEN v ELSE series[k]]

----------------------------------------------------------------------------
(* One line of the file, as the scan loop body treats it *)

\* a variant that ignores the error of ParseInt and goes on with the value 0
ParseLineIgnoresError(line) ==
    LET parts == Fields(line)
        ts    == IF Len(parts) >= 3 THEN ParseInt(parts[3]) ELSE [ok |-> FALSE, val |-> 0]
    IN  IF line = <<>> \/ HasPrefix(line, <<"#">>)
        THEN [kind |-> "skipped", key |-> <<>>, val |-> 0]
        ELSE IF Len(parts) < 3
        THEN [kind |-> "short", key |-> <<>>, val |-> 0]
        ELSE [kind |-> "valid",
              key  |-> <<parts[1], parts[2], IF Len(parts) >= 4 THEN parts[4] ELSE <<>> >>,
              val  |-> ts.val]

\* the classification and the record the loop body derives from a line
ParseLine(line) ==
    LET parts == Fields(line)
        ts    == IF Len(parts) >= 3 THEN ParseInt(parts[3]) ELSE [ok |-> FALSE, val |-> 0]
    IN  IF line = <<>> \/ HasPrefix(line, <<"#">>)
        THEN [kind |-> "skipped", key |-> <<>>, val |-> 0]
        ELSE IF Len(parts) < 3
        THEN [kind |-> "short", key |-> <<>>, val |-> 0]
        ELSE IF ~ts.ok
        THEN [kind |-> "badts", key |-> <<>>, val |-> 0]
        ELSE [kind |-> "valid",
              key  |-> <<parts[1], parts[2], IF Len(parts) >= 4 THEN parts[4] ELSE <<>> >>,
              val  |-> ts.val]

\* WithLabelValues panics on a label value that is not valid UTF-8
LabelsValid(key) == \A i \in 1..Len(key) : ValidUTF8(key[i])

----------------------------------------------------------------------------
(* The HTTP side: requests, the mux, the Basic-Auth gate, the two handlers *)

\* A URL path is the sequence of its segments: "/metrics" is <<"metrics">>,
\* "/" is <<"">>, "//metrics" is <<"", "metrics">>, "/metrics/" is
\* <<"metrics", "">>.

\* flag web.telemetry-path, at its default
metricsPath == <<"metrics">>

rootPath == <<"">>

\* path.Clean on a rooted path: empty and "." segments go, ".." takes the
\* segment before it along
RECURSIVE Clean(_, _, _)
Clean(p, i, acc) ==
    IF i > Len(p) THEN acc
    ELSE IF p[i] \in {"", "."} THEN Clean(p, i + 1, acc)
    ELSE IF p[i] = ".."
         THEN Clean(p, i + 1, IF acc = <<>> THEN acc ELSE SubSeq(acc, 1, Len(acc) - 1))
    ELSE Clean(p, i + 1, Append(acc, p[i]))

\* cleanPath of net/http: path.Clean with the trailing slash put back
cleanPath(p) ==
    LET np == Clean(p, 1, <<>>)
    IN  IF p = <<>> \/ np = <<>> THEN rootPath
        ELSE IF p[Len(p)] = "" THEN Append(np, "")
        ELSE np

Paths ==
    { metricsPath, rootPath, <<"other">>, <<"metrics", "">>, <<"", "metrics">>,
      <<"a", "..", "metrics">>, <<".", "metrics">> }

UserU == <<"u">>
PassP == <<"p">>
PassColon == <<"p", ":", "x">>

\* the values the auth flags are started with ("" disables the gate)
Usernames == {<<>>, UserU}
Passwords == {<<>>, PassP, PassColon}

\* an Authorization header: its first six characters, whether what follows
\* them is valid base64, and the text that base64 decodes to
NoAuthorization == [present |-> FALSE, prefix |-> <<>>, b64ok |-> FALSE, payload |-> <<>>]

Authorization(prefix, b64ok, payload) ==
    [present |-> TRUE, prefix |-> prefix, b64ok |-> b64ok, payload |-> payload]

BasicPrefix == <<"B", "a", "s", "i", "c", " ">>

Payloads ==
    { <<"u", ":", "p">>, <<"u", ":", "q">>, <<"v", ":", "p">>, <<"u", "p">>,
      <<":">>, <<"u", ":", "p", ":", "x">> }

Authorizations ==
    {NoAuthorization}
      \cup {Authorization(BasicPrefix, TRUE, c) : c \in Payloads}
      \cup { Authorization(<<"b", "a", "s", "i", "c", " ">>, TRUE, <<"u", ":", "p">>),
             Authorization(<<"B", "A", "S", "I", "C", " ">>, TRUE, <<"u", ":", "p">>),
             Authorization(<<"b", "A", "s", "I", "c", " ">>, TRUE, <<"u", ":", "p">>),
             Authorization(<<"B", "e", "a", "r", "e", "r">>, TRUE, <<"u", ":", "p">>),
             Authorization(<<"B", "a", "s", "i", "c", "\t">>, TRUE, <<"u", ":", "p">>),
             Authorization(<<"B", "a", "s", "i", "c">>, FALSE, <<>>),
             Authorization(BasicPrefix, FALSE, <<"u", ":", "p">>) }

Requests == [path : Paths, authorization : Authorizations]

\* the scrape a Prometheus server without credentials sends
Scrapes == {[path |-> metricsPath, authorization |-> NoAuthorization]}

\* strings.Cut(cs, ":"): the text before and after the first ":"
RECURSIVE IndexOfColon(_, _)
IndexOfColon(cs, i) ==
    IF i > Len(cs) THEN 0
    ELSE IF cs[i] = ":" THEN i
    ELSE IndexOfColon(cs, i + 1)

\* r.BasicAuth(): the header must be present, begin with "Basic " in any
\* letter case, go on with valid base64, and decode to a text with a ":"
BasicAuth(req) ==
    LET h == req.authorization
        i == IndexOfColon(h.payload, 1)
    IN  IF \/ ~h.present
           \/ Len(h.prefix) < Len(BasicPrefix)
           \/ ~EqualFold(h.prefix, BasicPrefix)
           \/ ~h.b64ok
           \/ i = 0
        THEN [ok |-> FALSE, username |-> <<>>, password |-> <<>>]
        ELSE [ok |-> TRUE,
              username |-> SubSeq(h.payload, 1, i - 1),
              password |-> SubSeq(h.payload, i + 1, Len(h.payload))]

\* subtle.ConstantTimeCompare(x, y): 1 when the lengths and all bytes agree
ConstantTimeCompare(x, y) ==
    IF Len(x) = Len(y) /\ \A i \in 1..Len(x) : x[i] = y[i] THEN 1 ELSE 0

\* the four collectors registered in init()
Collectors == {"series", "errors", "lastRead", "devices"}

NoExposition == [series |-> NoSeries, errors |-> 0, lastRead |-> 0, devices |-> 0]

\* where the loop was when the gauge vector listed its series for a scrape
NoListing == [cycle |-> 0, pc |-> "none", n |-> 0]

\* the series a scrape has listed and not yet read
NoneUnread == [k \in {} |-> [val |-> 0, live |-> FALSE]]

NoResponse ==
    [stage |-> "none", req |-> [path |-> <<>>, authorization |-> NoAuthorization],
     status |-> 0, challenge |-> "", handler |-> "none", location |-> <<>>,
     exposition |-> NoExposition, collect |-> {}, unread |-> NoneUnread,
     at |-> NoListing]

\* what the mux does with a path: it answers an unclean path itself, with a
\* redirect to the clean one; the metrics path goes to the metrics handler
\* and every other path to the pattern "/"
Route(path) ==
    IF cleanPath(path) # path THEN "redirect"
    ELSE IF path = metricsPath THEN "metrics"
    ELSE "home"

\* the mux's own answer to an unclean path
redirect(req) ==
    [NoResponse EXCEPT !.stage = "done", !.req = req, !.status = 301,
                       !.location = cleanPath(req.path)]

\* next.ServeHTTP(w, r) for the wrapped handler: the home page is answered
\* at once, the metrics handler starts to gather
ServeNext(req) ==
    IF Route(req.path) = "metrics"
    THEN [NoResponse EXCEPT !.stage = "gather", !.req = req, !.handler = "metrics",
                            !.collect = Collectors]
    ELSE [NoResponse EXCEPT !.stage = "done", !.req = req, !.status = 200,
                            !.handler = "home"]

\* unauthorized(w)
unauthorized(req) ==
    [NoResponse EXCEPT !.stage = "done", !.req = req, !.status = 401,
                       !.challenge = "Basic realm=\"Arpwatch Exporter\""]

\* a variant that lets a request pass when either credential matches
basicAuthEitherMatches(req) ==
    LET cred == BasicAuth(req)
    IN  IF authUsername = <<>> \/ authPassword = <<>>
        THEN ServeNext(req)
        ELSE IF ~cred.ok
        THEN unauthorized(req)
        ELSE IF \/ ConstantTimeCompare(cred.username, authUsername) = 1
                \/ ConstantTimeCompare(cred.password, authPassword) = 1
        THEN ServeNext(req)
        ELSE unauthorized(req)

\* the middleware basicAuth(next)
basicAuth(req) ==
    LET cred == BasicAuth(req)
    IN  IF authUsername = <<>> \/ authPassword = <<>>
        THEN ServeNext(req)
        ELSE IF ~cred.ok
        THEN unauthorized(req)
        ELSE IF /\ ConstantTimeCompare(cred.username, authUsername) = 1
                /\ ConstantTimeCompare(cred.password, authPassword) = 1
        THEN ServeNext(req)
        ELSE unauthorized(req)

\* the handler has read the last value: the body goes out with status 200
Finish(r) ==
    IF r.collect = {} /\ DOMAIN r.unread = {}
    THEN [r EXCEPT !.stage = "done", !.status = 200]
    ELSE r

\* the server takes a request: the mux answers it or routes it through the
\* gate to its handler.  One request is in the model at a time.
HandleRequest(req) ==
    /\ pc # "panicked"
    /\ response.stage # "gather"
    /\ response' = IF Route(req.path) = "redirect" THEN redirect(req) ELSE basicAuth(req)
    /\ UNCHANGED <<registry, flags, loop>>

\* GaugeVec.Collect: the metrics handler lists the series there are now;
\* the value of each is read later, when it is written to the body
CollectSeries ==
    /\ response.stage = "gather"
    /\ "series" \in response.collect
    /\ response' =
          Finish([response EXCEPT
                    !.collect = @ \ {"series"},
                    !.unread = [k \in DOMAIN lastSeenTimestamp |->
                                   [val |-> lastSeenTimestamp[k], live |-> TRUE]],
                    !.at = [cycle |-> now, pc |-> pc, n |-> Len(scanned)]])
    /\ UNCHANGED <<registry, flags, loop>>

\* Gauge.Write for a listed series: the value its object holds now
WriteSeries(k) ==
    /\ response.stage = "gather"
    /\ k \in DOMAIN response.unread
    /\ response' =
          Finish([response EXCEPT
                    !.exposition.series =
                        [j \in (DOMAIN @) \cup {k} |->
                            IF j = k THEN response.unread[k].val ELSE @[j]],
                    !.unread = [j \in (DOMAIN @) \ {k} |-> @[j]]])
    /\ UNCHANGED <<registry, flags, loop>>

\* Collect and Write for one of the three instruments without labels
WriteGauge(g) ==
    /\ response.stage = "gather"
    /\ g \in response.collect \ {"series"}
    /\ response' =
          Finish([response EXCEPT
                    !.collect = @ \ {g},
                    !.exposition =
                        IF g = "errors" THEN [@ EXCEPT !.errors = fileReadErrors]
                        ELSE IF g = "lastRead" THEN [@ EXCEPT !.lastRead = lastFileReadTime]
                        ELSE [@ EXCEPT !.devices = devicesTracked]])
    /\ UNCHANGED <<registry, flags, loop>>

\* A finished response is in the state it was finished in and in no later
\* one: the next step of the loop finds it sent.
Sent(r) == IF r.stage = "done" THEN NoResponse ELSE r

\* Reset() deletes the series objects: those a scrape has listed and not yet
\* read keep the value they had
AfterReset(r) ==
    IF r.stage = "gather"
    THEN [r EXCEPT !.unread = [k \in DOMAIN @ |-> [val |-> @[k].val, live |-> FALSE]]]
    ELSE Sent(r)

\* Set(v) on the series key: a scrape that has listed this object and not
\* yet read it will read v
AfterSet(r, key, v) ==
    IF r.stage = "gather" /\ key \in DOMAIN r.unread /\ r.unread[key].live
    THEN [r EXCEPT !.unread[key].val = v]
    ELSE Sent(r)

----------------------------------------------------------------------------
(* The refresh loop: updateMetrics calling readArpwatchData *)

\* the values of the four instruments in this state
Instruments ==
    [series |-> lastSeenTimestamp, errors |-> fileReadErrors,
     lastRead |-> lastFileReadTime, devices |-> devicesTracked]

NoPending == [key |-> <<>>, val |-> 0]

\* a variant that clears the gauge vector before it tries to open the file
OpenFailAfterReset ==
    /\ pc = "idle"
    /\ lastSeenTimestamp' = NoSeries
    /\ fileReadErrors' = fileReadErrors + 1
    /\ pre' = Instruments
    /\ outcome' = "open_failed"
    /\ pc' = "sleeping"
    /\ response' = AfterReset(response)
    /\ UNCHANGED <<lastFileReadTime, devicesTracked, flags,
                   file, scanned, deviceCount, scanErr, pending, now, lastGood>>

\* os.Open fails: count the error and return
OpenFail ==
    /\ pc = "idle"
    /\ fileReadErrors' = fileReadErrors + 1
    /\ pre' = Instruments
    /\ outcome' = "open_failed"
    /\ pc' = "sleeping"
    /\ response' = Sent(response)
    /\ UNCHANGED <<lastSeenTimestamp, lastFileReadTime, devicesTracked, flags,
                   file, scanned, deviceCount, scanErr, pending, now, lastGood>>

\* a variant that clears the gauge vector as soon as the file is open
OpenResets(f) ==
    /\ pc = "idle"
    /\ file' = f
    /\ pre' = Instruments
    /\ lastSeenTimestamp' = NoSeries
    /\ pc' = "opened"
    /\ response' = AfterReset(response)
    /\ UNCHANGED <<fileReadErrors, lastFileReadTime, devicesTracked, flags, scanned,
                   deviceCount, scanErr, pending, now, lastGood, outcome>>

\* os.Open succeeds on a file with the lines f
Open(f) ==
    /\ pc = "idle"
    /\ file' = f
    /\ pre' = Instruments
    /\ pc' = "opened"
    /\ response' = Sent(response)
    /\ UNCHANGED <<registry, flags, scanned, deviceCount, scanErr, pending, now,
                   lastGood, outcome>>

\* a variant without the call of Reset(): the new series merge into the old
ResetKeeps ==
    /\ pc = "opened"
    /\ deviceCount' = 0
    /\ pc' = "scan"
    /\ response' = Sent(response)
    /\ UNCHANGED <<registry, flags, file, scanned, scanErr, pending, now, pre,
                   lastGood, outcome>>

\* lastSeenTimestamp.Reset(), then the scanner and deviceCount := 0
Reset ==
    /\ pc = "opened"
    /\ lastSeenTimestamp' = NoSeries
    /\ deviceCount' = 0
    /\ pc' = "scan"
    /\ response' = AfterReset(response)
    /\ UNCHANGED <<fileReadErrors, lastFileReadTime, devicesTracked, flags, file,
                   scanned, scanErr, pending, now, pre, lastGood, outcome>>

\* the loop body on the token scanner.Text() returns, up to the call of
\* WithLabelValues on line 349: a line that is skipped or malformed goes on
\* to the next Scan(); a label value that is not valid UTF-8 makes
\* WithLabelValues panic, which ends the process
Body(line) ==
    LET r == ParseLine(line)
    IN  /\ scanned' = Append(scanned, line)
        /\ IF r.kind # "valid"
           THEN /\ pc' = "scan"
                /\ response' = Sent(response)
                /\ UNCHANGED <<lastSeenTimestamp, pending>>
           ELSE IF ~LabelsValid(r.key)
           THEN /\ pc' = "panicked"
                /\ response' = NoResponse
                /\ UNCHANGED <<lastSeenTimestamp, pending>>
           ELSE /\ lastSeenTimestamp' = WithLabelValues(lastSeenTimestamp, r.key)
                /\ pending' = [key |-> r.key, val |-> r.val]
                /\ pc' = "set"
                /\ response' = Sent(response)

\* scanner.Scan() returns the next line and the loop body runs on it
ScanLine ==
    /\ pc = "scan"
    /\ ~scanErr
    /\ Len(scanned) < Len(file)
    /\ Body(dropCR(file[Len(scanned) + 1]))
    /\ UNCHANGED <<fileReadErrors, lastFileReadTime, devicesTracked, flags, file,
                   deviceCount, scanErr, now, pre, lastGood, outcome>>

\* the read under the scanner fails after n more bytes.  The scanner keeps
\* the error; with bytes of a line in its buffer Scan() is true once more
\* and hands them out as a last token, on which the body runs, and without
\* any Scan() is false.
ReadError(n) ==
    /\ pc = "scan"
    /\ ~scanErr
    /\ LET whole == IF Len(scanned) < Len(file) THEN file[Len(scanned) + 1] ELSE <<>>
           data  == SubSeq(whole, 1, n)
       IN  /\ n = 0 \/ n < Len(whole)
           /\ IF data = <<>>
              THEN /\ pc' = "scanned"
                   /\ response' = Sent(response)
                   /\ UNCHANGED <<lastSeenTimestamp, scanned, pending>>
              ELSE Body(dropCR(data))
    /\ scanErr' = TRUE
    /\ UNCHANGED <<fileReadErrors, lastFileReadTime, devicesTracked, flags, file,
                   deviceCount, now, pre, lastGood, outcome>>

\* .Set(float64(timestamp)) on the series of line 349, then deviceCount++
Set ==
    /\ pc = "set"
    /\ lastSeenTimestamp' = SetSeries(lastSeenTimestamp, pending.key, pending.val)
    /\ deviceCount' = deviceCount + 1
    /\ pending' = NoPending
    /\ pc' = "scan"
    /\ response' = AfterSet(response, pending.key, pending.val)
    /\ UNCHANGED <<fileReadErrors, lastFileReadTime, devicesTracked, flags, file,
                   scanned, scanErr, now, pre, lastGood, outcome>>

\* scanner.Scan() is false at the end of the file
ScanEOF ==
    /\ pc = "scan"
    /\ ~scanErr
    /\ Len(scanned) = Len(file)
    /\ pc' = "scanned"
    /\ response' = Sent(response)
    /\ UNCHANGED <<registry, flags, file, scanned, deviceCount, scanErr, pending, now,
                   pre, lastGood, outcome>>

\* scanner.Scan() is false after the token that came with the read error
ScanStops ==
    /\ pc = "scan"
    /\ scanErr
    /\ pc' = "scanned"
    /\ response' = Sent(response)
    /\ UNCHANGED <<registry, flags, file, scanned, deviceCount, scanErr, pending, now,
                   pre, lastGood, outcome>>

\* a variant that puts the previous series back when the scan fails
ScanFailedRollsBack ==
    /\ pc = "scanned"
    /\ scanErr
    /\ lastSeenTimestamp' = pre.series
    /\ fileReadErrors' = fileReadErrors + 1
    /\ outcome' = "scan_failed"
    /\ pc' = "sleeping"
    /\ response' = AfterReset(response)
    /\ UNCHANGED <<lastFileReadTime, devicesTracked, flags, file,
                   scanned, deviceCount, scanErr, pending, now, pre, lastGood>>

\* scanner.Err() # nil: count the error and return
ScanFailed ==
    /\ pc = "scanned"
    /\ scanErr
    /\ fileReadErrors' = fileReadErrors + 1
    /\ outcome' = "scan_failed"
    /\ pc' = "sleeping"
    /\ response' = Sent(response)
    /\ UNCHANGED <<lastSeenTimestamp, lastFileReadTime, devicesTracked, flags, file,
                   scanned, deviceCount, scanErr, pending, now, pre, lastGood>>

\* a variant that sets the gauge to the number of series
SetDevicesTrackedToSeries ==
    /\ pc = "scanned"
    /\ ~scanErr
    /\ devicesTracked' = Cardinality(DOMAIN lastSeenTimestamp)
    /\ pc' = "counted"
    /\ response' = Sent(response)
    /\ UNCHANGED <<lastSeenTimestamp, fileReadErrors, lastFileReadTime, flags, file,
                   scanned, deviceCount, scanErr, pending, now, pre, lastGood, outcome>>

\* devicesTracked.Set(float64(deviceCount))
SetDevicesTracked ==
    /\ pc = "scanned"
    /\ ~scanErr
    /\ devicesTracked' = deviceCount
    /\ pc' = "counted"
    /\ response' = Sent(response)
    /\ UNCHANGED <<lastSeenTimestamp, fileReadErrors, lastFileReadTime, flags, file,
                   scanned, deviceCount, scanErr, pending, now, pre, lastGood, outcome>>

\* lastFileReadTime.Set(float64(time.Now().Unix())) and the return
SetLastFileReadTime ==
    /\ pc = "counted"
    /\ lastFileReadTime' = now
    /\ lastGood' = lastSeenTimestamp
    /\ outcome' = "ok"
    /\ pc' = "sleeping"
    /\ response' = Sent(response)
    /\ UNCHANGED <<lastSeenTimestamp, fileReadErrors, devicesTracked, flags, file,
                   scanned, deviceCount, scanErr, pending, now, pre>>

\* time.Sleep(30 * time.Second), then the next turn of the loop; the locals
\* of the call that returned are gone
Sleep ==
    /\ pc = "sleeping"
    /\ now < MaxCycles
    /\ now' = now + 1
    /\ file' = <<>>
    /\ scanned' = <<>>
    /\ deviceCount' = 0
    /\ scanErr' = FALSE
    /\ pre' = NoExposition
    /\ outcome' = "none"
    /\ pc' = "idle"
    /\ response' = Sent(response)
    /\ UNCHANGED <<registry, flags, pending, lastGood>>

----------------------------------------------------------------------------
(* Specifications *)

\* the process after flag.Parse() with the auth flags u and p, before the
\* first cycle
Started(u, p) ==
    /\ lastSeenTimestamp = NoSeries
    /\ fileReadErrors = 0
    /\ lastFileReadTime = 0
    /\ devicesTracked = 0
    /\ authUsername = u
    /\ authPassword = p
    /\ pc = "idle"
    /\ file = <<>>
    /\ scanned = <<>>
    /\ deviceCount = 0
    /\ scanErr = FALSE
    /\ pending = NoPending
    /\ now = 1
    /\ pre = NoExposition
    /\ lastGood = NoSeries
    /\ outcome = "none"
    /\ response = NoResponse

\* the flags at their defaults: no Basic-Auth
Init == Started(<<>>, <<>>)

\* the steps of one call of readArpwatchData once the file is open
Read ==
    \/ Reset
    \/ ScanLine
    \/ \E n \in CutOffsets : ReadError(n)
    \/ Set
    \/ ScanEOF
    \/ ScanStops
    \/ ScanFailed
    \/ SetDevicesTracked
    \/ SetLastFileReadTime

\* the steps of the metrics handler once it has been reached
GatherStep ==
    \/ CollectSeries
    \/ \E k \in DOMAIN response.unread : WriteSeries(k)
    \/ \E g \in Collectors \ {"series"} : WriteGauge(g)

\* a scrape arrives or goes on
Scrape ==
    \/ \E req \in Scrapes : HandleRequest(req)
    \/ GatherStep

\* the running exporter: cycle after cycle, scrapes served beside it
Next ==
    \/ OpenFail
    \/ pc = "idle" /\ \E f \in ServedFiles : Open(f)
    \/ Read
    \/ Sleep
    \/ Scrape

Spec == Init /\ [][Next]_vars

\* the refresh loop on its own, cycle after cycle (a scrape writes nothing
\* the loop reads)
NextLoop ==
    \/ OpenFail
    \/ pc = "idle" /\ \E f \in RefreshFiles : Open(f)
    \/ Read
    \/ Sleep

SpecLoop == Init /\ [][NextLoop]_vars

\* the first cycle of the exporter, over every file content
NextFirst ==
    \/ OpenFail
    \/ pc = "idle" /\ \E f \in Files : Open(f)
    \/ Read

SpecFirst == Init /\ [][NextFirst]_vars

\* the mux and the gate: any auth flags, any request, before the first
\* cycle has published a series
InitAuth == \E u \in Usernames, p \in Passwords : Started(u, p)

NextAuth ==
    \/ \E req \in Requests : HandleRequest(req)
    \/ CollectSeries
    \/ \E g \in Collectors \ {"series"} : WriteGauge(g)

SpecAuth == InitAuth /\ [][NextAuth]_vars

----------------------------------------------------------------------------
(* What the properties speak about *)

\* the lines scanner.Text() returns for a file read to its end
Texts(f) == [i \in 1..Len(f) |-> dropCR(f[i])]

\* every text the scanner can return: the sample lines, whole or cut short
Tokens ==
    UNION {{dropCR(SubSeq(l, 1, n)) : n \in {c \in CutOffsets : c <= Len(l)} \cup {Len(l)}} :
           l \in SampleLines}

\* the classification of each of them by the loop body
Classified == [t \in Tokens |-> ParseLine(t)]

\* every line of a sequence, classified
Parsed(lines) == [i \in 1..Len(lines) |-> Classified[lines[i]]]

\* the positions of the valid lines: not skipped, at least 3 fields, a
\* third field that parses
ValidAt(lines) ==
    LET P == Parsed(lines) IN {i \in 1..Len(lines) : P[i].kind = "valid"}

KeyAt(lines, i) == Classified[lines[i]].key

ValAt(lines, i) == Classified[lines[i]].val

ValidKeys(lines) ==
    LET P == Parsed(lines) IN {P[i].key : i \in {j \in 1..Len(lines) : P[j].kind = "valid"}}

\* the series a sequence of lines amounts to: one per key, with the value of
\* the last valid line of that key
SnapshotOf(lines) ==
    LET P == Parsed(lines)
        V == {i \in 1..Len(lines) : P[i].kind = "valid"}
        LastAt(k) == CHOOSE i \in V : P[i].key = k /\ \A j \in V : P[j].key = k => j <= i
    IN  [k \in {P[i].key : i \in V} |-> P[LastAt(k)].val]

\* a line with fewer than 3 fields or with a third field that is no integer
Malformed(line) ==
    \/ Len(Fields(line)) < 3
    \/ ~ParseInt(Fields(line)[3]).ok

\* the (mac, ip, hostname) a line with at least 3 fields names
FieldsKey(line) ==
    <<Fields(line)[1], Fields(line)[2],
      IF Len(Fields(line)) >= 4 THEN Fields(line)[4] ELSE <<>> >>

\* the call of readArpwatchData has just returned in the way o
Completed(o) == pc = "sleeping" /\ outcome = o

\* the call is between its os.Open and its return
InCycle == pc \in {"opened", "scan", "set", "scanned", "counted"}

\* a scrape has just been answered by the metrics handler
Scraped == response.stage = "done" /\ response.handler = "metrics"

\* the series in the body of that answer
Seen == response.exposition.series

\* the scrape listed the series inside the cycle this state belongs to
ListedInCycle ==
    /\ response.at.cycle = now
    /\ response.at.pc \in {"opened", "scan", "set", "scanned", "counted"}
    /\ InCycle \/ pc = "sleeping"

\* the loop stood in scanner.Scan() from the moment the scrape listed the
\* series to the moment it was answered
ServedInScan ==
    /\ response.at.cycle = now
    /\ response.at.pc = "scan"
    /\ pc = "scan"
    /\ response.at.n = Len(scanned)

----------------------------------------------------------------------------
(* Properties *)

\* C1: a cycle whose open fails leaves the per-device series and their values
\* as they were before the cycle and adds exactly 1 to the read-error counter.
C1_OpenFailureKeepsSnapshot ==
    Completed("open_failed") =>
        /\ lastSeenTimestamp = pre.series
        /\ fileReadErrors = pre.errors + 1

C1_Witness ==
    /\ Completed("open_failed")
    /\ lastSeenTimestamp # NoSeries
    /\ fileReadErrors = 2

\* C2: after a fully successful cycle there is a series for a key exactly
\* when the file read in that cycle has a valid line with that key; nothing
\* of an earlier cycle survives.
C2_FullReplace ==
    Completed("ok") => DOMAIN lastSeenTimestamp = ValidKeys(Texts(file))

C2_Witness ==
    /\ Completed("ok")
    /\ lastSeenTimestamp # NoSeries
    /\ \E k \in DOMAIN pre.series : k \notin DOMAIN lastSeenTimestamp

\* C3 as stated: a scrape served during a cycle sees the complete snapshot
\* from before the cycle or the complete snapshot of the file being read.
C3_AtomicReplace ==
    (Scraped /\ ListedInCycle) =>
        \/ Seen = pre.series
        \/ Seen = SnapshotOf(Texts(file))

\* C3 amended: a scrape that lists the series before Reset() sees the
\* complete snapshot from before the cycle.  One that lists them later sees
\* a series for exactly the keys of the valid lines scanned by then, none at
\* first; the value of each is 0, when it is read between the creation of
\* the series and its first Set, or the timestamp of a valid line of that
\* key scanned by the end of the scrape.  It is the complete new snapshot
\* only when the scan had reached the end of the file.
C3_RebuildIsVisible ==
    (Scraped /\ ListedInCycle) =>
        LET before == SubSeq(scanned, 1, response.at.n)
        IN  /\ response.at.pc = "opened" => Seen = pre.series
            /\ response.at.pc # "opened" =>
                  /\ DOMAIN Seen = ValidKeys(before)
                  /\ \A k \in DOMAIN Seen :
                        \/ Seen[k] = 0
                        \/ \E i \in ValidAt(scanned) :
                              KeyAt(scanned, i) = k /\ ValAt(scanned, i) = Seen[k]
            /\ (response.at.pc = "scan" /\ response.at.n = 0) => Seen = NoSeries
            /\ (response.at.pc \in {"scanned", "counted"} /\ ~scanErr) =>
                  Seen = SnapshotOf(Texts(file))

C3_Witness ==
    /\ Scraped
    /\ ListedInCycle
    /\ response.at.pc = "set"
    /\ pre.series # NoSeries
    /\ Cardinality(DOMAIN Seen) = 2
    /\ \E k \in DOMAIN Seen : Seen[k] = 0 /\ pending.key = k
    /\ Seen # pre.series
    /\ Seen # SnapshotOf(Texts(file))

\* C4 as stated: after a successful cycle every valid line of the file has
\* its series published with that line's own timestamp.
C4_EveryLinePublished ==
    Completed("ok") =>
        LET T == Texts(file)
        IN  \A i \in ValidAt(T) :
                /\ KeyAt(T, i) \in DOMAIN lastSeenTimestamp
                /\ lastSeenTimestamp[KeyAt(T, i)] = ValAt(T, i)

\* C4 amended: after a successful cycle every valid line of the file has its
\* series published, with the timestamp of the last valid line of the file
\* that has the same (mac, ip, hostname) key.
C4_LastLineWins ==
    Completed("ok") =>
        LET T == Texts(file)
            V == ValidAt(T)
        IN  \A i \in V :
                /\ KeyAt(T, i) \in DOMAIN lastSeenTimestamp
                /\ \E j \in V :
                      /\ j >= i
                      /\ KeyAt(T, j) = KeyAt(T, i)
                      /\ \A l \in V : KeyAt(T, l) = KeyAt(T, i) => l <= j
                      /\ lastSeenTimestamp[KeyAt(T, i)] = ValAt(T, j)

C4_Witness ==
    /\ Completed("ok")
    /\ LET T == Texts(file)
       IN  /\ \E i, j \in ValidAt(T) :
                 /\ i < j
                 /\ KeyAt(T, i) = KeyAt(T, j)
                 /\ ValAt(T, i) # ValAt(T, j)
                 /\ lastSeenTimestamp[KeyAt(T, j)] = ValAt(T, j)
           /\ \E i \in ValidAt(T) : KeyAt(T, i)[3] = <<>>

\* C5: a malformed line produces no series, leaves the read-error counter
\* alone and does not end the scan: every series comes from a line that is
\* not malformed, the scan reaches the end of the file, and the valid lines
\* before and after the malformed one are published and counted.
C5_MalformedLineSkipped ==
    /\ (pc \in {"scanned", "counted"} /\ ~scanErr) => scanned = Texts(file)
    /\ Completed("ok") =>
          /\ fileReadErrors = pre.errors
          /\ \A k \in DOMAIN lastSeenTimestamp :
                \E i \in 1..Len(file) :
                    /\ ~Malformed(Texts(file)[i])
                    /\ FieldsKey(Texts(file)[i]) = k
          /\ \A i \in ValidAt(Texts(file)) : KeyAt(Texts(file), i) \in DOMAIN lastSeenTimestamp
          /\ devicesTracked = Cardinality(ValidAt(Texts(file)))

C5_Witness ==
    /\ Completed("ok")
    /\ fileReadErrors = 0
    /\ devicesTracked = 2
    /\ Cardinality(DOMAIN lastSeenTimestamp) = 2
    /\ Len(file) = 3
    /\ 1 \in ValidAt(Texts(file))
    /\ Malformed(Texts(file)[2])
    /\ 3 \in ValidAt(Texts(file))

\* C6: the devices-tracked gauge is 0 until a cycle succeeds, changes only
\* when a cycle has scanned its file to the end without an I/O error, and is
\* then the number of valid lines of that file.
C6_DevicesTrackedCountsValidLines ==
    /\ devicesTracked = 0
    /\ [][IF pc = "scanned" /\ pc' = "counted"
          THEN devicesTracked' = Cardinality(ValidAt(Texts(file)))
          ELSE devicesTracked' = devicesTracked]_vars

C6_Witness ==
    /\ Completed("scan_failed")
    /\ now = 2
    /\ devicesTracked = 2
    /\ Cardinality(DOMAIN lastGood) = 1
    /\ deviceCount = 1

\* C7: right after a fully successful cycle the devices-tracked gauge is the
\* number of distinct (mac, ip, hostname) series published.
C7_DevicesTrackedCountsSeries ==
    Completed("ok") => devicesTracked = Cardinality(DOMAIN lastSeenTimestamp)

\* C8: a request the mux hands to the gate, with both credentials
\* configured, reaches the wrapped handler only with Basic credentials equal
\* to them, and every other such request gets 401 with the challenge and no
\* handler; with a credential left empty every such request reaches the
\* handler of its path.
C8_BasicAuthGate ==
    (response.stage # "none" /\ Route(response.req.path) # "redirect") =>
        LET cred    == BasicAuth(response.req)
            matches == /\ cred.ok
                       /\ cred.username = authUsername
                       /\ cred.password = authPassword
            passed  == /\ response.handler = Route(response.req.path)
                       /\ response.challenge = ""
                       /\ response.status = IF response.stage = "done" THEN 200 ELSE 0
            refused == /\ response.stage = "done"
                       /\ response.status = 401
                       /\ response.handler = "none"
                       /\ response.challenge = "Basic realm=\"Arpwatch Exporter\""
        IN  IF authUsername # <<>> /\ authPassword # <<>>
            THEN (matches /\ passed) \/ (~matches /\ refused)
            ELSE passed

C8_Witness ==
    /\ authUsername = UserU
    /\ authPassword = PassColon
    /\ response.stage = "done"
    /\ response.status = 200
    /\ response.handler = "metrics"
    /\ response.req.authorization.payload = <<"u", ":", "p", ":", "x">>

\* C9 as stated: once a cycle has succeeded, a scrape served while a later
\* cycle stands in the scan returns the series of the most recent fully
\* successful cycle.
C9_StalledServesLastGood ==
    (Scraped /\ ServedInScan /\ lastFileReadTime > 0) => Seen = lastGood

\* C9 amended: while the cycle stands in the scan a scrape still goes on and
\* is answered, with the partially rebuilt snapshot: the series of the valid
\* lines among those the scanner has returned so far, and none at all before
\* the first line.
C9_StalledServesRebuild ==
    /\ pc = "scan" => ENABLED Scrape
    /\ (Scraped /\ ServedInScan) =>
          /\ Seen = SnapshotOf(scanned)
          /\ scanned = <<>> => Seen = NoSeries

C9_Witness ==
    /\ Scraped
    /\ ServedInScan
    /\ lastFileReadTime > 0
    /\ lastGood # NoSeries
    /\ Seen # lastGood
    /\ Seen # NoSeries
    /\ Len(scanned) < Len(file)

\* C10: a cycle whose scan ends with an I/O error adds exactly 1 to the
\* read-error counter, leaves the two summary gauges as before the cycle, and
\* leaves exactly the series of the valid lines the scanner returned before
\* the failure, none of the earlier series restored.
C10_ScanFailureLeavesPartial ==
    Completed("scan_failed") =>
        /\ fileReadErrors = pre.errors + 1
        /\ devicesTracked = pre.devices
        /\ lastFileReadTime = pre.lastRead
        /\ lastSeenTimestamp = SnapshotOf(scanned)

C10_Witness ==
    /\ Completed("scan_failed")
    /\ lastSeenTimestamp # NoSeries
    /\ \E k \in DOMAIN pre.series : k \notin DOMAIN lastSeenTimestamp
    /\ Len(scanned) < Len(file)
    /\ pre.devices > 0
    /\ pre.lastRead > 0

====
